---- MODULE Spec2Model ----
(***************************************************************************)
(* Model of the cloud functions of functions/index.js:                     *)
(*   generateTidyComment      (Firestore onCreate trigger)                 *)
(*   generateEncouragement    (HTTP)                                       *)
(*   generateTidyCommentHTTP  (HTTP)                                       *)
(*   analyzeSpace             (HTTP, five-stage pipeline)                  *)
(* Every await of a handler is a step of its own; the answers of the       *)
(* document store, the object store and the generation providers are       *)
(* nondeterministic choices of the environment.                            *)
(***************************************************************************)
EXTENDS Integers, Sequences, FiniteSets, TLC

\* ------------------------------------------------------------------ bounds
NumHandlers == 2      \* deliveries of the creation event that may run
MaxClock == 1         \* largest value of the millisecond clock
MaxTextLen == 4       \* longest analysis text returned by the provider
MaxItems == 2         \* longest list inside an analysis object
MaxOver == 3          \* how far above the cap a caller's maxTokens may be
MaxNeg == 2           \* how far below zero a caller's maxTokens may be
MaxRecords == 3       \* longest list of item documents given to a helper
MaxMs == 2            \* latest creation instant, in ms after the epoch
MaxSorted == 8        \* longest list of item documents that is sorted

\* --------------------------------------------------------- JavaScript values
\* A JavaScript value of a document or of a parsed JSON text: its type tag
\* and, for a list, its elements.
JUndef == [t |-> "undef", v |-> <<>>]
JNum == [t |-> "num", v |-> <<>>]       \* a non-zero number
JList(s) == [t |-> "list", v |-> s]

\* Strings: the absent value and the empty string are the falsy ones.
Undefined == "<undefined>"
Truthy(s) == s \notin {Undefined, ""}

\* ------------------------------------------------------------------ state
VARIABLES
  \* generateTidyComment
  itemDoc,      \* the triggering document of items/{itemId} in the store
  snap,         \* event.data: the document as it was when it was created
  hpc,          \* per delivery: the handler's position
  hText,        \* per delivery: tidyText, once the provider answered
  hQueries,     \* per delivery: store queries issued
  hProvider,    \* per delivery: provider calls issued
  hMutations,   \* per delivery: document updates issued
  hOutcome,     \* per delivery: "none", "returned" or "threw"
  hFailure,     \* per delivery, history: "none", or the await that failed
  others,       \* the other documents of items and the documents of users
  clock,        \* Date.now() / new Date()
  \* direct requests
  req,          \* the request: function, method and body
  rpc,          \* the handler's position
  resp,         \* the responses sent, in order
  rProvider,    \* text provider calls issued
  rEdit,        \* image-edit provider calls issued
  sentBudget,   \* max_tokens of the text provider call
  oaiKey,       \* openaiApiKey.value()
  provError,    \* history: status and body of the text provider's failure answer
  sentImage,    \* history: the image sent to the analysis call and to the edit call
  \* analyzeSpace
  analysisText, \* analysisData.content[0].text
  payload,      \* the members of the analysis object the text spells
  parsed,       \* the recovered analysis
  imagePrompt,  \* builtImagePrompt
  afterPath,    \* filePath of the edited image, once it is saved
  afterImageUrl,
  beforeUrl,
  blobs,        \* objects stored in the bucket
  sessions,     \* documents of coachSessions
  editOutcome,  \* history: "none", "failed" or "ok" answer of the edit call
  persistOutcome, \* history: "none", "failed" or "ok" end of STEP 5
  \* the helper functions, called on their own
  call,         \* the function called and its arguments
  ret           \* the value it returned, once it has

tidyVars == <<itemDoc, snap, hpc, hText, hQueries, hProvider, hMutations, hOutcome, hFailure, others>>
reqVars == <<req, rpc, resp, rProvider, rEdit, sentBudget, oaiKey, provError, sentImage>>
spaceVars == <<analysisText, payload, parsed, imagePrompt, afterPath, afterImageUrl, beforeUrl, blobs, sessions,
              editOutcome, persistOutcome>>
fnVars == <<call, ret>>
vars == <<tidyVars, clock, reqVars, spaceVars, fnVars>>

\* ------------------------------------------------- generateTidyComment
Handlers == 1..NumHandlers

\* Comments of an item document.
UserComment ==
  [userName |-> "ann", authorAvatar |-> "a", isAI |-> FALSE, text |-> "bye coat", createdAt |-> 0]
OldAIComment ==
  [userName |-> "Tidy", authorAvatar |-> "house", isAI |-> TRUE, text |-> "old", createdAt |-> 0]

\* The element generateTidyComment appends. toISOString renders distinct
\* millisecond instants as distinct strings, so the instant stands for it.
TidyComment(text, now) ==
  [userName |-> "Tidy", authorAvatar |-> "house", isAI |-> TRUE, text |-> text, createdAt |-> now]

\* result.content[0].text.trim() of a well-formed provider answer
TidyTexts == {"Coat gone!", "Closet breathing"}

\* The documents the main application may create.
ItemDocs ==
  [userId : {Undefined, "u1"},
   name : {Undefined, "", "wool coat"},
   category : {Undefined, "clothing"},
   comments : {JUndef, JList(<<>>), JList(<<UserComment>>), JList(<<OldAIComment>>),
               JList(<<UserComment, OldAIComment>>)}]

\* if (!itemData.userId || !itemData.name || !itemData.category) return;
RequiredFieldsPresentNoName(itemData) ==
  Truthy(itemData.userId) /\ Truthy(itemData.category)

RequiredFieldsPresent(itemData) ==
  Truthy(itemData.userId) /\ Truthy(itemData.name) /\ Truthy(itemData.category)

\* itemData.comments && itemData.comments.some((c) => c.isAI)
HasAICommentFirstOnly(itemData) ==
  /\ itemData.comments.t = "list"
  /\ Len(itemData.comments.v) > 0
  /\ itemData.comments.v[1].isAI

HasAIComment(itemData) ==
  /\ itemData.comments.t = "list"
  /\ \E i \in 1..Len(itemData.comments.v) : itemData.comments.v[i].isAI

\* FieldValue.arrayUnion(el) applied to a field by the store: the element is
\* added unless an equal element is already in the array.
ArrayUnionReplace(field, el) == JList(<<el>>)

ArrayUnion(field, el) ==
  IF field.t = "list"
    THEN IF \E i \in 1..Len(field.v) : field.v[i] = el
           THEN field
           ELSE JList(Append(field.v, el))
    ELSE JList(<<el>>)

AIComments(doc) ==
  IF doc.comments.t = "list"
    THEN {i \in 1..Len(doc.comments.v) : doc.comments.v[i].isAI}
    ELSE {}

TidyReturn(h) ==
  /\ hpc' = [hpc EXCEPT ![h] = "done"]
  /\ hOutcome' = [hOutcome EXCEPT ![h] = "returned"]

\* The platform delivers the creation event (at least once) and the handler
\* runs its synchronous prefix, up to the first await.
TidyStart(h) ==
  /\ hpc[h] = "idle"
  /\ IF ~snap.exists
       THEN TidyReturn(h)
       ELSE IF ~RequiredFieldsPresent(snap.data)
         THEN TidyReturn(h)
         ELSE IF HasAIComment(snap.data)
           THEN TidyReturn(h)
           ELSE /\ hpc' = [hpc EXCEPT ![h] = "queryItems"]
                /\ UNCHANGED hOutcome
  /\ UNCHANGED <<itemDoc, snap, hText, hQueries, hProvider, hMutations, hFailure, others, clock>>
  /\ UNCHANGED <<reqVars, spaceVars, fnVars>>

\* catch (error) { console.error(...) }: the failure of the await `what` is
\* logged and the handler ends normally.
TidyCatchRethrow(h, what) ==
  /\ hpc' = [hpc EXCEPT ![h] = "done"]
  /\ hOutcome' = [hOutcome EXCEPT ![h] = "threw"]
  /\ hFailure' = [hFailure EXCEPT ![h] = what]

TidyCatch(h, what) ==
  /\ TidyReturn(h)
  /\ hFailure' = [hFailure EXCEPT ![h] = what]

\* await firestoreDb.collection("items").where(...).get(), then the sort
\* and the aggregation; a failed query is caught by the handler's try.
TidyQueryItems(h) ==
  /\ hpc[h] = "queryItems"
  /\ hQueries' = [hQueries EXCEPT ![h] = @ + 1]
  /\ \/ /\ hpc' = [hpc EXCEPT ![h] = "queryUser"]
        /\ UNCHANGED <<hOutcome, hFailure>>
     \/ TidyCatch(h, "query")
  /\ UNCHANGED <<itemDoc, snap, hText, hProvider, hMutations, others, clock>>
  /\ UNCHANGED <<reqVars, spaceVars, fnVars>>

\* await firestoreDb.collection("users").where(...).get(), then the prompt
TidyQueryUser(h) ==
  /\ hpc[h] = "queryUser"
  /\ hQueries' = [hQueries EXCEPT ![h] = @ + 1]
  /\ \/ /\ hpc' = [hpc EXCEPT ![h] = "fetch"]
        /\ UNCHANGED <<hOutcome, hFailure>>
     \/ TidyCatch(h, "query")
  /\ UNCHANGED <<itemDoc, snap, hText, hProvider, hMutations, others, clock>>
  /\ UNCHANGED <<reqVars, spaceVars, fnVars>>

\* if (!response.ok) { ...; return; }
TidyProviderError(h) ==
  /\ TidyReturn(h)
  /\ hFailure' = [hFailure EXCEPT ![h] = "provider"]

\* await fetch(..., {signal}) under the 10000 ms abort timer, then
\* response.json(). The call fails, or is aborted when the provider has
\* not answered in time, or its body is not of the expected shape (the
\* catch); it answers with a non-success status; or it answers with a text.
TidyFetch(h) ==
  /\ hpc[h] = "fetch"
  /\ hProvider' = [hProvider EXCEPT ![h] = @ + 1]
  /\ \/ /\ TidyCatch(h, "provider")
        /\ UNCHANGED hText
     \/ /\ TidyProviderError(h)
        /\ UNCHANGED hText
     \/ \E t \in TidyTexts :
          /\ hText' = [hText EXCEPT ![h] = t]
          /\ hpc' = [hpc EXCEPT ![h] = "update"]
          /\ UNCHANGED <<hOutcome, hFailure>>
  /\ UNCHANGED <<itemDoc, snap, hQueries, hMutations, others, clock>>
  /\ UNCHANGED <<reqVars, spaceVars, fnVars>>

\* await snap.ref.update({comments: FieldValue.arrayUnion({...})}); the
\* comment carries new Date() of this moment. A failed update is caught.
TidyUpdate(h) ==
  /\ hpc[h] = "update"
  /\ hMutations' = [hMutations EXCEPT ![h] = @ + 1]
  /\ \E now \in clock..MaxClock :
       /\ clock' = now
       /\ \/ /\ itemDoc' = [itemDoc EXCEPT !.comments = ArrayUnion(@, TidyComment(hText[h], now))]
             /\ TidyReturn(h)
             /\ UNCHANGED hFailure
          \/ /\ TidyCatch(h, "write")
             /\ UNCHANGED itemDoc
  /\ UNCHANGED <<snap, hText, hQueries, hProvider, others>>
  /\ UNCHANGED <<reqVars, spaceVars, fnVars>>

\* ------------------------------------------------------ direct requests
\* Responses: res.status(n).json({error}), res.json({message}) or
\* res.json({text}), res.json({analysis, afterImageUrl}).
NoUrl == <<>>
NoMembers ==
  [visibleItems |-> JUndef, itemArrangements |-> JUndef,
   trashToRemove |-> JUndef, misplacedItems |-> JUndef, imagePrompt |-> Undefined]
NoAnalysis == [kind |-> "none", m |-> NoMembers]

ErrorResponse(status, error) ==
  [status |-> status, error |-> error, text |-> "", analysis |-> NoAnalysis, afterImageUrl |-> NoUrl]
TextResponse(text) ==
  [status |-> 200, error |-> "", text |-> text, analysis |-> NoAnalysis, afterImageUrl |-> NoUrl]
AnalysisResponse(analysis, url) ==
  [status |-> 200, error |-> "", text |-> "", analysis |-> analysis, afterImageUrl |-> url]

Send(r) == resp' = Append(resp, r)

\* Request bodies. An absent number is a number that is not present.
NoNumber == [present |-> FALSE, v |-> 0]
NoImage == [present |-> FALSE, s |-> <<>>]
NoRequest ==
  [fn |-> "none", method |-> "POST", itemName |-> Undefined, category |-> Undefined,
   prompt |-> Undefined, system |-> Undefined, maxTokens |-> NoNumber,
   imageBase64 |-> NoImage, userId |-> Undefined]

Methods == {"POST", "GET"}

\* max_tokens: isShortMode ? 60 : 150
ShortTokens == 60
DetailedTokens == 150
\* Math.min(maxTokens || 200, 200)
DefaultTokens == 200
TokenCap == 200

Min(a, b) == IF a <= b THEN a ELSE b

TokenLimitUncapped(maxTokens) ==
  IF maxTokens.present /\ maxTokens.v # 0 THEN maxTokens.v ELSE DefaultTokens

TokenLimit(maxTokens) ==
  Min(IF maxTokens.present /\ maxTokens.v # 0 THEN maxTokens.v ELSE DefaultTokens, TokenCap)

\* if (!itemName || !category)
EncouragementFieldsPresent(body) == Truthy(body.itemName) /\ Truthy(body.category)

\* generateEncouragement up to its await: method, required fields, mode.
EncouragementStart ==
  /\ req.fn = "generateEncouragement"
  /\ rpc = "idle"
  /\ IF req.method # "POST"
       THEN /\ Send(ErrorResponse(405, "Method not allowed"))
            /\ rpc' = "done"
       ELSE IF ~EncouragementFieldsPresent(req)
         THEN /\ Send(ErrorResponse(400, "Missing required fields"))
              /\ rpc' = "done"
         ELSE /\ rpc' = "fetch"
              /\ UNCHANGED resp
  /\ UNCHANGED <<req, rProvider, rEdit, sentBudget, oaiKey, provError, sentImage>>
  /\ UNCHANGED <<tidyVars, clock, spaceVars, fnVars>>

\* A failure answer of the text provider: response.status and the text of
\* its body, which the handlers log.
NoError == [status |-> 0, body |-> ""]
ProviderErrors == [status : {429, 529}, body : {"rate_limit_error", "overloaded_error"}]

\* if (!response.ok) { ...; res.status(502).json({error: "AI service unavailable"}); }
ServiceUnavailableLeaky(status, errorText) == ErrorResponse(status, errorText)

ServiceUnavailable(status, errorText) == ErrorResponse(502, "AI service unavailable")

\* The outcomes of a text provider call in a direct-request handler: the
\* call throws or the body is of another shape (the catch); the answer has
\* a non-success status; the answer is well formed and
\* data.content[0].text.trim() is its text; or the provider never answers.
\* This fetch carries no abort signal, so in the last case the await never
\* settles and the handler stays where it is.
EncouragementFetch ==
  /\ req.fn = "generateEncouragement"
  /\ rpc = "fetch"
  /\ rProvider' = rProvider + 1
  /\ \E isShortMode \in BOOLEAN :
       sentBudget' = IF isShortMode THEN ShortTokens ELSE DetailedTokens
  /\ \/ /\ Send(ErrorResponse(500, "Internal server error"))
        /\ rpc' = "done"
        /\ UNCHANGED provError
     \/ \E e \in ProviderErrors :
          /\ provError' = e
          /\ Send(ServiceUnavailable(e.status, e.body))
          /\ rpc' = "done"
     \/ \E t \in TidyTexts :
          /\ Send(TextResponse(t))
          /\ rpc' = "done"
          /\ UNCHANGED provError
     \/ /\ rpc' = "hung"
        /\ UNCHANGED <<resp, provError>>
  /\ UNCHANGED <<req, rEdit, oaiKey, sentImage>>
  /\ UNCHANGED <<tidyVars, clock, spaceVars, fnVars>>

\* if (!prompt)
PromptPresent(body) == Truthy(body.prompt)

\* generateTidyCommentHTTP up to its await.
TidyHTTPStart ==
  /\ req.fn = "generateTidyCommentHTTP"
  /\ rpc = "idle"
  /\ IF req.method # "POST"
       THEN /\ Send(ErrorResponse(405, "Method not allowed"))
            /\ rpc' = "done"
       ELSE IF ~PromptPresent(req)
         THEN /\ Send(ErrorResponse(400, "Missing prompt"))
              /\ rpc' = "done"
         ELSE /\ rpc' = "fetch"
              /\ UNCHANGED resp
  /\ UNCHANGED <<req, rProvider, rEdit, sentBudget, oaiKey, provError, sentImage>>
  /\ UNCHANGED <<tidyVars, clock, spaceVars, fnVars>>

\* This fetch carries the signal of an AbortController that a 15000 ms timer
\* aborts: when the provider has not answered by then the call throws, which
\* is the catch like every other throw.
TidyHTTPFetch ==
  /\ req.fn = "generateTidyCommentHTTP"
  /\ rpc = "fetch"
  /\ rProvider' = rProvider + 1
  /\ sentBudget' = TokenLimit(req.maxTokens)
  /\ \/ /\ Send(ErrorResponse(500, "Internal server error"))
        /\ UNCHANGED provError
     \/ \E e \in ProviderErrors :
          /\ provError' = e
          /\ Send(ServiceUnavailable(e.status, e.body))
     \/ \E t \in TidyTexts :
          /\ Send(TextResponse(t))
          /\ UNCHANGED provError
  /\ rpc' = "done"
  /\ UNCHANGED <<req, rEdit, oaiKey, sentImage>>
  /\ UNCHANGED <<tidyVars, clock, spaceVars, fnVars>>

\* ----------------------------------------------------------- analyzeSpace
\* A base64 image string is a sequence of tokens: "data:", a declared type,
\* ";base64", ",", a leading signature, other payload ("AA").
DeclaredTypes == {"image/png", "image/jpeg", "image/gif", "image/webp"}

StartsWith(s, tok) == Len(s) > 0 /\ s[1] = tok

SetMin(S) == CHOOSE x \in S : \A y \in S : x <= y
SetMax(S) == CHOOSE x \in S : \A y \in S : x >= y

Commas(s) == {i \in 1..Len(s) : s[i] = ","}

\* base64String.split(",")[1]: undefined when the string has no comma
SplitComma1(s) ==
  IF Commas(s) = {}
    THEN [defined |-> FALSE, s |-> <<>>]
    ELSE LET c1 == SetMin(Commas(s))
             later == {i \in Commas(s) : i > c1}
             c2 == IF later = {} THEN Len(s) + 1 ELSE SetMin(later)
         IN [defined |-> TRUE, s |-> SubSeq(s, c1 + 1, c2 - 1)]

Sniff(s) ==
  IF StartsWith(s, "/9j/") THEN "image/jpeg"
  ELSE IF StartsWith(s, "iVBOR") THEN "image/png"
  ELSE IF StartsWith(s, "R0lGOD") THEN "image/gif"
  ELSE IF StartsWith(s, "UklGR") THEN "image/webp"
  ELSE "image/jpeg"

\* "TypeError" when split(",")[1] is undefined and startsWith is called on it
getMediaType(s) ==
  IF StartsWith(s, "data:")
    THEN IF Len(s) >= 4 /\ s[2] \in DeclaredTypes /\ s[3] = ";base64" /\ s[4] = ","
           THEN s[2]
           ELSE IF SplitComma1(s).defined THEN Sniff(SplitComma1(s).s) ELSE "TypeError"
    ELSE Sniff(s)

stripDataUrlPrefix(s) ==
  IF Commas(s) # {} THEN SplitComma1(s).s ELSE s

\* The text of the analysis answer is a sequence of characters:
\*   "{" "}"  braces,   "m"  the members of the analysis object,
\*   "n"  the literal null,   "0"  a number,   "s"  white space,
\*   "p"  any other character (prose).
\* the value of analysisText before the provider answered
NoText == <<"<none>">>
Chars == {"{", "}", "m", "n", "0", "s", "p"}
Texts == UNION {[1..k -> Chars] : k \in 0..MaxTextLen}

\* JSON.parse: white space around tokens is skipped; the JSON texts of this
\* alphabet are null, 0, {} and {m}. ok = FALSE is the SyntaxError.
JSONParse(text) ==
  LET t == SelectSeq(text, LAMBDA c : c # "s") IN
  IF t = <<"n">> THEN [ok |-> TRUE, kind |-> "null", members |-> FALSE]
  ELSE IF t = <<"0">> THEN [ok |-> TRUE, kind |-> "num", members |-> FALSE]
  ELSE IF t = <<"{", "}">> THEN [ok |-> TRUE, kind |-> "object", members |-> FALSE]
  ELSE IF t = <<"{", "m", "}">> THEN [ok |-> TRUE, kind |-> "object", members |-> TRUE]
  ELSE [ok |-> FALSE, kind |-> "none", members |-> FALSE]

\* analysisText.match(/\{[\s\S]*\}/): from the first "{" to the last "}"
MatchBraces(text) ==
  LET opens == {i \in 1..Len(text) : text[i] = "{"}
      closes == {i \in 1..Len(text) : text[i] = "}"}
  IN IF opens # {} /\ \E j \in closes : j > SetMin(opens)
       THEN [found |-> TRUE, span |-> SubSeq(text, SetMin(opens), SetMax(closes))]
       ELSE [found |-> FALSE, span |-> <<>>]

\* STEP 2. outcome "parsed": parsed is set; "malformed": the 502 answer;
\* "threw": JSON.parse of the matched span threw inside the catch block.
Recover(text) ==
  LET d == JSONParse(text) IN
  IF d.ok THEN [outcome |-> "parsed", kind |-> d.kind, members |-> d.members]
  ELSE LET jsonMatch == MatchBraces(text) IN
       IF jsonMatch.found
         THEN LET e == JSONParse(jsonMatch.span) IN
              IF e.ok THEN [outcome |-> "parsed", kind |-> e.kind, members |-> e.members]
              ELSE [outcome |-> "threw", kind |-> "none", members |-> FALSE]
         ELSE [outcome |-> "malformed", kind |-> "none", members |-> FALSE]

\* The value JSON.parse returns for a text whose members are `m`.
ParsedValue(r, m) == [kind |-> r.kind, m |-> IF r.members THEN m ELSE NoMembers]

\* Strings inside an analysis are sequences of characters.
sCup == <<"c", "u", "p">>
sCupboard == <<"C", "u", "p", "b", "o", "a", "r", "d">>
sFolded == <<"f", "o", "l", "d", "e", "d">>
\* a list element that is not a string
NonStr == <<"<number>">>

LowerChar(c) == IF c = "C" THEN "c" ELSE c
toLowerCase(str) == [i \in 1..Len(str) |-> LowerChar(str[i])]

\* r.split(" ")[0]
FirstWord(r) ==
  LET spaces == {i \in 1..Len(r) : r[i] = " "}
  IN IF spaces = {} THEN r ELSE SubSeq(r, 1, SetMin(spaces) - 1)

\* i.includes(w)
Includes(i, w) ==
  \E k \in 0..(Len(i) - Len(w)) : SubSeq(i, k + 1, k + Len(w)) = w

\* x || []
JTruthy(x) == x.t \in {"list", "num"}
OrEmpty(x) == IF JTruthy(x) THEN x ELSE JList(<<>>)
\* x.length > 0
HasElements(x) == x.t = "list" /\ Len(x.v) > 0

NoPrompt == [kind |-> "null", keep |-> <<>>, arrangements |-> <<>>, removable |-> <<>>]

\* STEP 3. threw = TRUE is a TypeError, which the outer catch answers.
BuildPrompt(p) ==
  LET items == OrEmpty(p.m.visibleItems)
      arrangements == OrEmpty(p.m.itemArrangements)
      trash == OrEmpty(p.m.trashToRemove)
      misplaced == OrEmpty(p.m.misplacedItems)
      Threw == [threw |-> TRUE, prompt |-> NoPrompt]
  IN
  IF p.kind = "null" THEN Threw
  ELSE IF trash.t # "list" \/ misplaced.t # "list" THEN Threw
  ELSE LET removable == trash.v \o misplaced.v IN
    IF HasElements(items) /\ HasElements(arrangements)
      THEN IF \E k \in 1..Len(removable) : removable[k] = NonStr THEN Threw
           ELSE IF removable # <<>> /\ \E k \in 1..Len(items.v) : items.v[k] = NonStr
             THEN Threw
           ELSE LET removableLower == [k \in 1..Len(removable) |-> toLowerCase(removable[k])]
                    Keep(i) == ~\E k \in 1..Len(removableLower) :
                                  Includes(toLowerCase(i), FirstWord(removableLower[k]))
                IN [threw |-> FALSE,
                    prompt |-> [kind |-> "built", keep |-> SelectSeq(items.v, Keep),
                                arrangements |-> arrangements.v, removable |-> removable]]
      ELSE [threw |-> FALSE,
            prompt |-> IF Truthy(p.m.imagePrompt)
                         THEN [NoPrompt EXCEPT !.kind = "custom"] ELSE NoPrompt]

\* The lists an analysis object may hold: k items, alternately two strings.
ItemAt(i) == IF i % 2 = 1 THEN sCup ELSE sCupboard
ItemList(k) == [i \in 1..k |-> ItemAt(i)]
ArrangementList(k) == [i \in 1..k |-> sFolded]

Members ==
  [visibleItems : {JUndef, JNum, JList(<<NonStr>>)} \cup {JList(ItemList(k)) : k \in 0..MaxItems},
   itemArrangements : {JUndef} \cup {JList(ArrangementList(k)) : k \in 0..MaxItems},
   trashToRemove : {JUndef, JNum, JList(<<sCup>>)},
   misplacedItems : {JUndef},
   imagePrompt : {Undefined}]

\* max_tokens of the analysis call
AnalysisTokens == 800

Images ==
  {NoImage,
   [present |-> TRUE, s |-> <<>>],
   [present |-> TRUE, s |-> <<"/9j/", "AA">>],
   [present |-> TRUE, s |-> <<"data:", "image/png", ";base64", ",", "iVBOR", "AA">>],
   [present |-> TRUE, s |-> <<"data:", "AA">>]}

\* if (!imageBase64 || !userId)
SpaceFieldsPresentImageOnly(body) ==
  body.imageBase64.present /\ body.imageBase64.s # <<>>

SpaceFieldsPresent(body) ==
  /\ body.imageBase64.present /\ body.imageBase64.s # <<>>
  /\ Truthy(body.userId)

detectedMediaType == getMediaType(req.imageBase64.s)
rawBase64 == stripDataUrlPrefix(req.imageBase64.s)
Ext == IF detectedMediaType = "image/png" THEN "png" ELSE "jpg"

\* The image a provider call carries: source {media_type, data} of the
\* analysis call; new Blob([Buffer.from(rawBase64, "base64")], {type}) of the
\* edit call.
NoImageSent == [type |-> "", data |-> <<>>]
AnalysisImage == [type |-> detectedMediaType, data |-> rawBase64]
EditImageUnstripped == [type |-> detectedMediaType, data |-> req.imageBase64.s]
EditImage == [type |-> detectedMediaType, data |-> rawBase64]

\* analyzeSpace up to its first await: method, required fields, media type
\* (a TypeError of getMediaType is thrown inside the try).
SpaceStart ==
  /\ req.fn = "analyzeSpace"
  /\ rpc = "idle"
  /\ IF req.method # "POST"
       THEN /\ Send(ErrorResponse(405, "Method not allowed"))
            /\ rpc' = "done"
       ELSE IF ~SpaceFieldsPresent(req)
         THEN /\ Send(ErrorResponse(400, "Missing required fields"))
              /\ rpc' = "done"
         ELSE IF detectedMediaType = "TypeError"
           THEN /\ Send(ErrorResponse(500, "Internal server error"))
                /\ rpc' = "done"
           ELSE /\ rpc' = "analysis"
                /\ UNCHANGED resp
  /\ UNCHANGED <<req, rProvider, rEdit, sentBudget, oaiKey, provError, sentImage>>
  /\ UNCHANGED <<tidyVars, clock, spaceVars, fnVars>>

\* if (!analysisResponse.ok) { ...; res.status(502).json({error: "Analysis failed"}); }
AnalysisFailed(status, errorText) == ErrorResponse(502, "Analysis failed")

\* STEP 1: the analysis call throws, answers with a non-success status,
\* answers with a body of another shape, answers with a text, or never
\* answers (this fetch carries no abort signal).
SpaceAnalysis ==
  /\ req.fn = "analyzeSpace"
  /\ rpc = "analysis"
  /\ rProvider' = rProvider + 1
  /\ sentBudget' = AnalysisTokens
  /\ \/ /\ Send(ErrorResponse(500, "Internal server error"))
        /\ rpc' = "done"
        /\ UNCHANGED <<analysisText, payload, provError>>
     \/ \E e \in ProviderErrors :
          /\ provError' = e
          /\ Send(AnalysisFailed(e.status, e.body))
          /\ rpc' = "done"
          /\ UNCHANGED <<analysisText, payload>>
     \/ \E t \in Texts, m \in Members \cup {NoMembers} :
          /\ IF Recover(t).members THEN m \in Members ELSE m = NoMembers
          /\ analysisText' = t
          /\ payload' = m
          /\ rpc' = "recover"
          /\ UNCHANGED <<resp, provError>>
     \/ /\ rpc' = "hung"
        /\ UNCHANGED <<resp, analysisText, payload, provError>>
  /\ sentImage' = [sentImage EXCEPT !.analysis = AnalysisImage]
  /\ UNCHANGED <<req, rEdit, oaiKey>>
  /\ UNCHANGED <<parsed, imagePrompt, afterPath, afterImageUrl, beforeUrl, blobs, sessions>>
  /\ UNCHANGED <<editOutcome, persistOutcome>>
  /\ UNCHANGED <<tidyVars, clock, fnVars>>

\* The outer catch: res.status(500).json(...)
SpaceCatchSilent == UNCHANGED resp

SpaceCatch == Send(ErrorResponse(500, "Internal server error"))

\* STEP 2 and STEP 3, and the key check of STEP 4.
SpaceRecover ==
  /\ req.fn = "analyzeSpace"
  /\ rpc = "recover"
  /\ LET r == Recover(analysisText)
         value == ParsedValue(r, payload)
         built == BuildPrompt(value)
     IN
     IF r.outcome = "malformed"
       THEN /\ Send(ErrorResponse(502, "Analysis returned invalid format"))
            /\ rpc' = "done"
            /\ UNCHANGED <<parsed, imagePrompt>>
       ELSE IF r.outcome = "threw"
         THEN /\ SpaceCatch
              /\ rpc' = "done"
              /\ UNCHANGED <<parsed, imagePrompt>>
         ELSE /\ parsed' = value
              /\ IF built.threw
                   THEN /\ SpaceCatch
                        /\ rpc' = "done"
                        /\ UNCHANGED imagePrompt
                   ELSE /\ imagePrompt' = built.prompt
                        /\ rpc' = IF Truthy(oaiKey) THEN "edit" ELSE "saveBefore"
                        /\ UNCHANGED resp
  /\ UNCHANGED <<req, rProvider, rEdit, sentBudget, oaiKey, provError, sentImage>>
  /\ UNCHANGED <<analysisText, payload, afterPath, afterImageUrl, beforeUrl, blobs, sessions>>
  /\ UNCHANGED <<editOutcome, persistOutcome>>
  /\ UNCHANGED <<tidyVars, clock, fnVars>>

\* STEP 4: the edit call. It throws, answers with a non-success status or
\* with a body of another shape (all leave afterImageUrl null), answers
\* with an image, or never answers (this fetch carries no abort signal).
SpaceEditRetrying ==
  /\ req.fn = "analyzeSpace"
  /\ rpc = "edit"
  /\ rEdit' = rEdit + 1
  /\ \/ /\ rpc' = IF rEdit = 0 THEN "edit" ELSE "saveBefore"
        /\ editOutcome' = "failed"
     \/ /\ rpc' = "saveAfter"
        /\ editOutcome' = "ok"
  /\ sentImage' = [sentImage EXCEPT !.edit = EditImage]
  /\ UNCHANGED <<req, resp, rProvider, sentBudget, oaiKey, provError>>
  /\ UNCHANGED <<analysisText, payload, parsed, imagePrompt, afterPath, afterImageUrl>>
  /\ UNCHANGED <<beforeUrl, blobs, sessions, persistOutcome>>
  /\ UNCHANGED <<tidyVars, clock, fnVars>>

SpaceEdit ==
  /\ req.fn = "analyzeSpace"
  /\ rpc = "edit"
  /\ rEdit' = rEdit + 1
  /\ \/ /\ rpc' = "saveBefore"
        /\ editOutcome' = "failed"
     \/ /\ rpc' = "saveAfter"
        /\ editOutcome' = "ok"
     \/ /\ rpc' = "hung"
        /\ UNCHANGED editOutcome
  /\ sentImage' = [sentImage EXCEPT !.edit = EditImage]
  /\ UNCHANGED <<req, resp, rProvider, sentBudget, oaiKey, provError>>
  /\ UNCHANGED <<analysisText, payload, parsed, imagePrompt, afterPath, afterImageUrl>>
  /\ UNCHANGED <<beforeUrl, blobs, sessions, persistOutcome>>
  /\ UNCHANGED <<tidyVars, clock, fnVars>>

\* bucket.file(path).save(...): the object at that path is (re)written.
Blob(path, contentType) == [path |-> path, contentType |-> contentType, public |-> FALSE]
Save(path, contentType) ==
  blobs' = {b \in blobs : b.path # path} \cup {Blob(path, contentType)}
\* file.makePublic()
MakePublic(path) ==
  blobs' = {IF b.path = path THEN [b EXCEPT !.public = TRUE] ELSE b : b \in blobs}

\* `coach/${userId}/${timestamp}_after.png`, and the URL made from it
AfterPath(userId, timestamp) == <<userId, timestamp, "after.png">>
\* `coach/${userId}/${timestamp}_before.${ext}`
BeforePath(userId, timestamp, ext) == <<userId, timestamp, "before", ext>>

\* await file.save(imgBuffer, ...) at Date.now(); a failure is caught by
\* the try of STEP 4.
SpaceSaveAfter ==
  /\ req.fn = "analyzeSpace"
  /\ rpc = "saveAfter"
  /\ \E timestamp \in clock..MaxClock :
       /\ clock' = timestamp
       /\ \/ /\ Save(AfterPath(req.userId, timestamp), "image/png")
             /\ afterPath' = AfterPath(req.userId, timestamp)
             /\ rpc' = "publicAfter"
          \/ /\ rpc' = "saveBefore"
             /\ UNCHANGED <<blobs, afterPath>>
  /\ UNCHANGED <<req, resp, rProvider, rEdit, sentBudget, oaiKey, provError, sentImage>>
  /\ UNCHANGED <<analysisText, payload, parsed, imagePrompt, afterImageUrl, beforeUrl, sessions>>
  /\ UNCHANGED <<editOutcome, persistOutcome>>
  /\ UNCHANGED <<tidyVars, fnVars>>

\* await file.makePublic(); afterImageUrl = ...; a failure is caught by the
\* try of STEP 4 and leaves afterImageUrl null.
SpacePublicAfter ==
  /\ req.fn = "analyzeSpace"
  /\ rpc = "publicAfter"
  /\ \/ /\ MakePublic(afterPath)
        /\ afterImageUrl' = afterPath
     \/ UNCHANGED <<blobs, afterImageUrl>>
  /\ rpc' = "saveBefore"
  /\ UNCHANGED <<req, resp, rProvider, rEdit, sentBudget, oaiKey, provError, sentImage>>
  /\ UNCHANGED <<analysisText, payload, parsed, imagePrompt, afterPath, beforeUrl, sessions>>
  /\ UNCHANGED <<editOutcome, persistOutcome>>
  /\ UNCHANGED <<tidyVars, clock, fnVars>>

\* res.json({analysis: parsed, afterImageUrl})
SpaceRespond ==
  /\ Send(AnalysisResponse(parsed, afterImageUrl))
  /\ rpc' = "done"

\* catch (saveError) { ... } of STEP 5: logged, then the response is sent.
SpaceSaveErrorFatal ==
  /\ SpaceCatch
  /\ rpc' = "done"
  /\ persistOutcome' = "failed"

SpaceSaveError ==
  /\ SpaceRespond
  /\ persistOutcome' = "failed"

\* STEP 5: await beforeFile.save(beforeBuffer, ...) at Date.now()
SpaceSaveBefore ==
  /\ req.fn = "analyzeSpace"
  /\ rpc = "saveBefore"
  /\ \E timestamp \in clock..MaxClock :
       /\ clock' = timestamp
       /\ \/ /\ Save(BeforePath(req.userId, timestamp, Ext), detectedMediaType)
             /\ beforeUrl' = BeforePath(req.userId, timestamp, Ext)
             /\ rpc' = "publicBefore"
             /\ UNCHANGED <<resp, persistOutcome>>
          \/ /\ SpaceSaveError
             /\ UNCHANGED <<blobs, beforeUrl>>
  /\ UNCHANGED <<req, rProvider, rEdit, sentBudget, oaiKey, provError, sentImage>>
  /\ UNCHANGED <<analysisText, payload, parsed, imagePrompt, afterPath, afterImageUrl, sessions>>
  /\ UNCHANGED editOutcome
  /\ UNCHANGED <<tidyVars, fnVars>>

\* await beforeFile.makePublic()
SpacePublicBefore ==
  /\ req.fn = "analyzeSpace"
  /\ rpc = "publicBefore"
  /\ \/ /\ MakePublic(beforeUrl)
        /\ rpc' = "session"
        /\ UNCHANGED <<resp, persistOutcome>>
     \/ /\ SpaceSaveError
        /\ UNCHANGED blobs
  /\ UNCHANGED <<req, rProvider, rEdit, sentBudget, oaiKey, provError, sentImage>>
  /\ UNCHANGED <<analysisText, payload, parsed, imagePrompt, afterPath, afterImageUrl, beforeUrl, sessions>>
  /\ UNCHANGED editOutcome
  /\ UNCHANGED <<tidyVars, clock, fnVars>>

\* The document of coachSessions (createdAt is the store's own timestamp).
SessionNoAfter(userId, before, after, analysis) ==
  [userId |-> userId, beforeImageUrl |-> before, afterImageUrl |-> NoUrl, analysis |-> analysis]

Session(userId, before, after, analysis) ==
  [userId |-> userId, beforeImageUrl |-> before, afterImageUrl |-> after, analysis |-> analysis]

\* await firestoreDb.collection("coachSessions").add({...}), then the
\* response.
SpaceSessionOverwrite ==
  /\ req.fn = "analyzeSpace"
  /\ rpc = "session"
  /\ sessions' = <<Session(req.userId, beforeUrl, afterImageUrl, parsed)>>
  /\ SpaceRespond
  /\ persistOutcome' = "ok"
  /\ UNCHANGED <<req, rProvider, rEdit, sentBudget, oaiKey, provError, sentImage>>
  /\ UNCHANGED <<analysisText, payload, parsed, imagePrompt, afterPath, afterImageUrl, beforeUrl, blobs>>
  /\ UNCHANGED editOutcome
  /\ UNCHANGED <<tidyVars, clock, fnVars>>

SpaceSession ==
  /\ req.fn = "analyzeSpace"
  /\ rpc = "session"
  /\ \/ /\ sessions' = Append(sessions, Session(req.userId, beforeUrl, afterImageUrl, parsed))
        /\ SpaceRespond
        /\ persistOutcome' = "ok"
     \/ /\ SpaceSaveError
        /\ UNCHANGED sessions
  /\ UNCHANGED <<req, rProvider, rEdit, sentBudget, oaiKey, provError, sentImage>>
  /\ UNCHANGED <<analysisText, payload, parsed, imagePrompt, afterPath, afterImageUrl, beforeUrl, blobs>>
  /\ UNCHANGED editOutcome
  /\ UNCHANGED <<tidyVars, clock, fnVars>>

\* ----------------------------------------- helper functions of the coach
\* Labels are written without their leading emoji.
CATEGORY_NAMES ==
  [clothing |-> "Clothing", books |-> "Books", electronics |-> "Electronics",
   furniture |-> "Furniture", kitchenware |-> "Kitchenware", shoes |-> "Shoes",
   food |-> "Food", toys |-> "Toys", digital |-> "Digital Docs",
   accessories |-> "Accessories", other |-> "Other"]

SPACES ==
  [kitchen_space |-> "Kitchen", bathroom |-> "Bathroom", bedroom |-> "Bedroom",
   living |-> "Living Room", kids_room |-> "Kids Room", closet |-> "Closet",
   office |-> "Office", garage |-> "Garage", pantry |-> "Pantry", mudroom |-> "Mudroom"]

\* Both tables are object literals, so table[key] also finds what the
\* object inherits from Object.prototype: a function or an object, which is
\* truthy and which a template renders as its source text.
ObjectPrototypeKeys == {"constructor", "toString", "valueOf", "hasOwnProperty", "__proto__"}
Inherited(key) == "<Object.prototype." \o key \o ">"

\* table[key]; the key undefined is looked up as the string "undefined",
\* which neither table nor Object.prototype has
Get(table, key) ==
  IF key \in DOMAIN table THEN table[key]
  ELSE IF key \in ObjectPrototypeKeys THEN Inherited(key)
  ELSE Undefined

\* CATEGORY_NAMES[category] || "Other"
getCategoryName(category) ==
  IF Truthy(Get(CATEGORY_NAMES, category)) THEN Get(CATEGORY_NAMES, category) ELSE "Other"

\* SPACES[spaceKey] || spaceKey
getSpaceDisplayName(spaceKey) ==
  IF Truthy(Get(SPACES, spaceKey)) THEN Get(SPACES, spaceKey) ELSE spaceKey

\* The fields of an item document that the aggregation reads. createdAt is
\* a store Timestamp (it has toDate), a native Date, null, or absent; ms is
\* the instant of the first two.
Null == "<null>"
FieldOf(item, field) == IF field = "category" THEN item.category ELSE item.space

\* Object.entries(counts): the keys in the order of their first insertion
\* (none of the keys is an array index), each with its count. A falsy value
\* is not counted.
Entries(items, field) ==
  LET val == [i \in 1..Len(items) |-> FieldOf(items[i], field)]
      first == [i \in 1..Len(items) |-> i]
      IsFirst(i) == Truthy(val[i]) /\ \A j \in 1..(i - 1) : val[j] # val[i]
      at == SelectSeq(first, IsFirst)
  IN [k \in 1..Len(at) |->
        [key |-> val[at[k]],
         count |-> Cardinality({j \in 1..Len(items) : val[j] = val[at[k]]})]]

\* for (const [key, count] of entries) if (count > maxCount) {...}
RECURSIVE MaxEntry(_, _, _, _)
MaxEntry(entries, k, maxKey, maxCount) ==
  IF k > Len(entries) THEN maxKey
  ELSE IF entries[k].count > maxCount
    THEN MaxEntry(entries, k + 1, entries[k].key, entries[k].count)
    ELSE MaxEntry(entries, k + 1, maxKey, maxCount)

getMostFrequentFirst(items, field) ==
  IF Entries(items, field) = <<>> THEN Null ELSE Entries(items, field)[1].key

getMostFrequent(items, field) == MaxEntry(Entries(items, field), 1, Null, 0)

\* 7 * 24 * 60 * 60 * 1000
WeekMs == 604800000

\* The time value of a Date; that of an Invalid Date is NaN.
TimeValue(ms) == [nan |-> FALSE, t |-> ms]
InvalidDate == [nan |-> TRUE, t |-> 0]

\* item.createdAt?.toDate ? item.createdAt.toDate() : new Date(item.createdAt)
\* new Date(null) is the epoch and new Date(undefined) is an Invalid Date.
CreatedDate(createdAt) ==
  IF createdAt.kind = "timestamp" THEN TimeValue(createdAt.ms)
  ELSE IF createdAt.kind = "date" THEN TimeValue(createdAt.ms)
  ELSE IF createdAt.kind = "iso" THEN TimeValue(createdAt.ms)
  ELSE IF createdAt.kind = "null" THEN TimeValue(0)
  ELSE InvalidDate

\* created >= weekAgo: a comparison with NaN is false
DateGreater(a, b) == ~a.nan /\ ~b.nan /\ a.t > b.t

DateAtLeast(a, b) == ~a.nan /\ ~b.nan /\ a.t >= b.t

\* now is what new Date() reads
getItemsThisWeek(items, now) ==
  LET weekAgo == TimeValue(now - WeekMs)
  IN Len(SelectSeq(items, LAMBDA item : DateAtLeast(CreatedDate(item.createdAt), weekAgo)))

\* 1000 * 60 * 60 * 24
DayMs == 86400000

\* Math.floor((Date.now() - created.getTime()) / DayMs); NaN stays NaN
DaysAgo(created, now) ==
  IF created.nan THEN InvalidDate ELSE TimeValue((now - created.t) \div DayMs)

\* daysAgo === 0 ? "today" : daysAgo + "d ago"; NaN renders as "NaNd ago"
DayMarker(daysAgo) ==
  IF ~daysAgo.nan /\ daysAgo.t = 0
    THEN [text |-> "today", days |-> InvalidDate]
    ELSE [text |-> "d ago", days |-> daysAgo]

\* One line of the list: name, category label, space label, day marker.
formatRecentItemsList(recentItems, now) ==
  [i \in 1..Len(recentItems) |->
     [name |-> recentItems[i].name,
      category |-> getCategoryName(recentItems[i].category),
      space |-> getSpaceDisplayName(recentItems[i].space),
      ago |-> DayMarker(DaysAgo(CreatedDate(recentItems[i].createdAt), now))]]

\* a.createdAt?.toDate ? a.createdAt.toDate().getTime() : 0
SortTime(createdAt) ==
  IF createdAt.kind = "timestamp" THEN createdAt.ms ELSE 0

\* allItems.sort((a, b) => bTime - aTime): descending, and stable, so a
\* record goes behind the records of the same time that came before it.
InsertByTime(sorted, x) ==
  LET ahead == Cardinality({i \in 1..Len(sorted) :
                              SortTime(sorted[i].createdAt) >= SortTime(x.createdAt)})
  IN SubSeq(sorted, 1, ahead) \o <<x>> \o SubSeq(sorted, ahead + 1, Len(sorted))

RECURSIVE SortByTime(_)
SortByTime(allItems) ==
  IF allItems = <<>> THEN <<>>
  ELSE InsertByTime(SortByTime(SubSeq(allItems, 1, Len(allItems) - 1)),
                    allItems[Len(allItems)])

\* allItems.slice(0, 7)
RecentWindow == 7

recentItems(allItems) ==
  SubSeq(SortByTime(allItems), 1, Min(RecentWindow, Len(allItems)))

\* A line of the user message: what stands before the colon, and the
\* pieces of text after it. "" is the line that filter(Boolean) drops.
Line(label, value) == [label |-> label, value |-> value]
Blank == Line("", <<>>)

\* str.trim(): a note is a sequence of characters
Trim(str) ==
  LET inked == {i \in 1..Len(str) : str[i] # " "}
  IN IF inked = {} THEN <<>> ELSE SubSeq(str, SetMin(inked), SetMax(inked))

\* itemData.note && itemData.note.trim() ? itemData.note.trim() : ""
ItemNoteUntrimmed(note) ==
  IF note.present /\ note.s # <<>> THEN note.s ELSE <<>>

ItemNote(note) ==
  IF note.present /\ note.s # <<>> /\ Trim(note.s) # <<>> THEN Trim(note.s) ELSE <<>>

\* [...].filter(Boolean).join("\n")
UserContext(itemData, context) ==
  LET spaceName == getSpaceDisplayName(itemData.space)
      categoryName == getCategoryName(itemData.category)
      itemNote == ItemNote(itemData.note)
  IN SelectSeq(
       <<IF Truthy(context.userVision)
           THEN Line("Dream home vision", <<context.userVision>>) ELSE Blank,
         IF context.currentStreak # 0
           THEN Line("Current streak", <<ToString(context.currentStreak), "days">>) ELSE Blank,
         IF Truthy(categoryName) THEN Line("Category", <<categoryName>>) ELSE Blank,
         IF Truthy(spaceName) THEN Line("Space", <<spaceName>>) ELSE Blank,
         IF itemNote # <<>> THEN Line("User note about this item", itemNote) ELSE Blank>>,
       LAMBDA l : l # Blank)

\* `USER'S HISTORY: ...`; recentItemsList is the lines that
\* formatRecentItemsList joined
HistoryBlockNoRecent(context) ==
  <<Line("USER'S HISTORY", <<>>),
    Line("Total items decluttered", <<ToString(context.totalItems)>>),
    Line("Total points", <<ToString(context.totalPoints)>>),
    Line("Items this week", <<ToString(context.itemsThisWeek)>>),
    Line("Most cleared space lately", <<context.topSpaceName>>),
    Line("Most cleared category lately", <<context.topCategoryName>>)>>

HistoryBlock(context) ==
  <<Line("USER'S HISTORY", <<>>),
    Line("Total items decluttered", <<ToString(context.totalItems)>>),
    Line("Total points", <<ToString(context.totalPoints)>>),
    Line("Items this week", <<ToString(context.itemsThisWeek)>>),
    Line("Most cleared space lately", <<context.topSpaceName>>),
    Line("Most cleared category lately", <<context.topCategoryName>>),
    Line("Recent items", <<>>)>>
  \o [i \in 1..Len(context.recentItemsList) |-> Line("", <<context.recentItemsList[i]>>)]

\* hasBA ? `JUST NOW they decluttered WITH before & after photos: ...` : ...
ItemBlock(itemData) ==
  <<Line(IF itemData.hasBeforeAfter
           THEN "JUST NOW they decluttered WITH before & after photos"
           ELSE "JUST NOW they decluttered", <<>>),
    Line("Item", <<itemData.name>>),
    Line("Category", <<getCategoryName(itemData.category)>>),
    Line("Space", <<getSpaceDisplayName(itemData.space)>>),
    Line("Points earned",
         IF itemData.hasBeforeAfter
           THEN <<ToString(itemData.points), "+ 30 bonus for B&A">>
           ELSE <<ToString(itemData.points)>>)>>

\* if (shortMode) {...} else if (hasBA) {...} else {...}
TaskIgnoringMode(shortMode, hasBA, itemNote) ==
  IF hasBA
    THEN <<Line("LENGTH MODE", <<"DETAILED.", "Write a personalized comment with",
                                   "ONE practical maintenance tip", "(2-3 sentences max).">>)>>
    ELSE <<Line("LENGTH MODE", <<"DETAILED.", "Write a short, personalized comment",
                                   "(2-3 sentences max).">>)>>

Task(shortMode, hasBA, itemNote) ==
  IF shortMode
    THEN <<Line("LENGTH MODE", <<"SHORT.", "Write a punchy reaction UNDER 8 WORDS", "+ 1 emoji.">>),
           Line("Must reference something specific",
                (IF itemNote # <<>> THEN <<"their note (">> \o itemNote \o <<"), ">> ELSE <<>>)
                  \o <<"the item, a pattern, or a milestone.">>),
           Line("", <<"Do NOT be generic.", "React to what makes THIS declutter unique.">>)>>
    ELSE IF hasBA
      THEN <<Line("LENGTH MODE", <<"DETAILED.", "Write a personalized comment with",
                                     "ONE practical maintenance tip", "(2-3 sentences max).">>)>>
      ELSE <<Line("LENGTH MODE", <<"DETAILED.", "Write a short, personalized comment",
                                     "(2-3 sentences max).">>)>>

\* [userContext, historyBlock, itemBlock, task].join("\n\n"): the four
\* blocks in their order
buildTidyUserMessage(itemData, context, shortMode) ==
  <<UserContext(itemData, context),
    HistoryBlock(context),
    ItemBlock(itemData),
    Task(shortMode, itemData.hasBeforeAfter, ItemNote(itemData.note))>>

\* The calls of the helper functions, each with its arguments.
NoDate == [kind |-> "undefined", ms |-> 0]
NoNote == [present |-> FALSE, s |-> <<>>]
NoItem ==
  [name |-> Undefined, category |-> Undefined, space |-> Undefined, note |-> NoNote,
   hasBeforeAfter |-> FALSE, points |-> 0]
NoContext ==
  [userVision |-> "", totalItems |-> 0, currentStreak |-> 0, totalPoints |-> 0,
   itemsThisWeek |-> 0, topSpaceName |-> "N/A", topCategoryName |-> "N/A",
   recentItemsList |-> <<>>]
NoCall ==
  [fn |-> "none", key |-> Undefined, items |-> <<>>, field |-> "category", now |-> 0,
   itemData |-> NoItem, context |-> NoContext, shortMode |-> FALSE, image |-> <<>>]
NoReturn == [returned |-> FALSE, s |-> "", n |-> 0, l |-> <<>>]
Returned(s, n) == [returned |-> TRUE, s |-> s, n |-> n, l |-> <<>>]
ReturnedList(l) == [returned |-> TRUE, s |-> "", n |-> 0, l |-> l]

CallGetCategoryName ==
  /\ call.fn = "getCategoryName"
  /\ ~ret.returned
  /\ ret' = Returned(getCategoryName(call.key), 0)
  /\ UNCHANGED <<tidyVars, clock, reqVars, spaceVars, call>>

CallGetSpaceDisplayName ==
  /\ call.fn = "getSpaceDisplayName"
  /\ ~ret.returned
  /\ ret' = Returned(getSpaceDisplayName(call.key), 0)
  /\ UNCHANGED <<tidyVars, clock, reqVars, spaceVars, call>>

CallGetMostFrequent ==
  /\ call.fn = "getMostFrequent"
  /\ ~ret.returned
  /\ ret' = Returned(getMostFrequent(call.items, call.field), 0)
  /\ UNCHANGED <<tidyVars, clock, reqVars, spaceVars, call>>

CallGetItemsThisWeek ==
  /\ call.fn = "getItemsThisWeek"
  /\ ~ret.returned
  /\ ret' = Returned("", getItemsThisWeek(call.items, call.now))
  /\ UNCHANGED <<tidyVars, clock, reqVars, spaceVars, call>>

CallFormatRecentItemsList ==
  /\ call.fn = "formatRecentItemsList"
  /\ ~ret.returned
  /\ ret' = ReturnedList(formatRecentItemsList(call.items, call.now))
  /\ UNCHANGED <<tidyVars, clock, reqVars, spaceVars, call>>

CallBuildTidyUserMessage ==
  /\ call.fn = "buildTidyUserMessage"
  /\ ~ret.returned
  /\ ret' = ReturnedList(buildTidyUserMessage(call.itemData, call.context, call.shortMode))
  /\ UNCHANGED <<tidyVars, clock, reqVars, spaceVars, call>>

CallGetMediaType ==
  /\ call.fn = "getMediaType"
  /\ ~ret.returned
  /\ ret' = Returned(getMediaType(call.image), 0)
  /\ UNCHANGED <<tidyVars, clock, reqVars, spaceVars, call>>

CallStripDataUrlPrefix ==
  /\ call.fn = "stripDataUrlPrefix"
  /\ ~ret.returned
  /\ ret' = ReturnedList(stripDataUrlPrefix(call.image))
  /\ UNCHANGED <<tidyVars, clock, reqVars, spaceVars, call>>

\* the sort and the slice of generateTidyComment
CallRecentItems ==
  /\ call.fn = "recentItems"
  /\ ~ret.returned
  /\ ret' = ReturnedList(recentItems(call.items))
  /\ UNCHANGED <<tidyVars, clock, reqVars, spaceVars, call>>

\* ------------------------------------------------------- specifications
DefaultDoc ==
  [userId |-> Undefined, name |-> Undefined, category |-> Undefined, comments |-> JUndef]

\* The other documents of the store: another item of the same user and the
\* user's profile, or none.
OtherItem ==
  [userId |-> "u1", name |-> "old lamp", category |-> "furniture", comments |-> JList(<<UserComment>>)]
UserProfile == [userId |-> "u1", dreamVision |-> "calm home", streak |-> 3, score |-> 40]
EmptyStore == [items |-> <<>>, users |-> <<>>]
Stores == {EmptyStore, [items |-> <<OtherItem>>, users |-> <<UserProfile>>]}

TidyCounters ==
  /\ hText = [h \in Handlers |-> ""]
  /\ hQueries = [h \in Handlers |-> 0]
  /\ hProvider = [h \in Handlers |-> 0]
  /\ hMutations = [h \in Handlers |-> 0]
  /\ hOutcome = [h \in Handlers |-> "none"]
  /\ hFailure = [h \in Handlers |-> "none"]

TidyIdle ==
  /\ hpc = [h \in Handlers |-> "idle"]
  /\ TidyCounters

\* No item document was created, so no creation event is delivered.
TidyAbsent ==
  /\ hpc = [h \in Handlers |-> "absent"]
  /\ TidyCounters
  /\ itemDoc = DefaultDoc
  /\ snap = [exists |-> FALSE, data |-> DefaultDoc]
  /\ others = EmptyStore

RequestFresh ==
  /\ rpc = "idle"
  /\ resp = <<>>
  /\ rProvider = 0
  /\ rEdit = 0
  /\ sentBudget = 0
  /\ provError = NoError
  /\ sentImage = [analysis |-> NoImageSent, edit |-> NoImageSent]
  /\ analysisText = NoText
  /\ payload = NoMembers
  /\ parsed = NoAnalysis
  /\ imagePrompt = NoPrompt
  /\ afterPath = NoUrl
  /\ afterImageUrl = NoUrl
  /\ beforeUrl = NoUrl
  /\ editOutcome = "none"
  /\ persistOutcome = "none"

RequestIdle ==
  /\ RequestFresh
  /\ blobs = {}
  /\ sessions = <<>>

\* No helper function is called on its own.
FnIdle ==
  /\ call = NoCall
  /\ ret = NoReturn

\* An item document has just been created; its creation event will be
\* delivered, with the created document or without data.
Init ==
  /\ itemDoc \in ItemDocs
  /\ snap \in {[exists |-> e, data |-> itemDoc] : e \in BOOLEAN}
  /\ others \in Stores
  /\ TidyIdle
  /\ clock = 0
  /\ req = NoRequest
  /\ oaiKey = ""
  /\ RequestIdle
  /\ FnIdle

Next ==
  \E h \in Handlers :
    \/ TidyStart(h)
    \/ TidyQueryItems(h)
    \/ TidyQueryUser(h)
    \/ TidyFetch(h)
    \/ TidyUpdate(h)

Spec == Init /\ [][Next]_vars

\* The requests a caller may send to the three HTTP functions.
MaxTokensValues ==
  {NoNumber} \cup {[present |-> TRUE, v |-> n] : n \in (0 - MaxNeg)..(TokenCap + MaxOver)}

Requests ==
  {[NoRequest EXCEPT !.fn = "generateEncouragement", !.method = me,
                     !.itemName = i, !.category = c] :
     me \in Methods, i \in {Undefined, "", "wool coat"}, c \in {Undefined, "clothing"}}
  \cup
  {[NoRequest EXCEPT !.fn = "generateTidyCommentHTTP", !.method = me,
                     !.prompt = pr, !.maxTokens = mt] :
     me \in Methods, pr \in {Undefined, "", "Say hi"}, mt \in MaxTokensValues}
  \cup
  {[NoRequest EXCEPT !.fn = "analyzeSpace", !.method = me,
                     !.imageBase64 = im, !.userId = u] :
     me \in Methods, im \in Images, u \in {Undefined, "u1"}}

InitHTTP ==
  /\ req \in Requests
  /\ oaiKey \in {"", "sk-test"}
  /\ req.fn # "analyzeSpace" => oaiKey = ""
  /\ RequestIdle
  /\ clock = 0
  /\ itemDoc = DefaultDoc
  /\ snap = [exists |-> FALSE, data |-> DefaultDoc]
  /\ others = EmptyStore
  /\ TidyIdle
  /\ FnIdle

NextHTTP ==
  \/ EncouragementStart
  \/ EncouragementFetch
  \/ TidyHTTPStart
  \/ TidyHTTPFetch
  \/ SpaceStart
  \/ SpaceAnalysis
  \/ SpaceRecover
  \/ SpaceEdit
  \/ SpaceSaveAfter
  \/ SpacePublicAfter
  \/ SpaceSaveBefore
  \/ SpacePublicBefore
  \/ SpaceSession

SpecHTTP == InitHTTP /\ [][NextHTTP]_vars

\* The deployed functions together: either an item document has just been
\* created, or a caller sends one request while the store already holds the
\* session and the before image of an earlier analyzeSpace request of
\* another user.
ExistingBlob == [Blob(BeforePath("u0", 0, "jpg"), "image/jpeg") EXCEPT !.public = TRUE]
ExistingSession ==
  Session("u0", BeforePath("u0", 0, "jpg"), NoUrl, [kind |-> "object", m |-> NoMembers])

InitAll ==
  \/ Init
  \/ /\ req \in Requests
     /\ oaiKey \in {"", "sk-test"}
     /\ req.fn # "analyzeSpace" => oaiKey = ""
     /\ RequestFresh
     /\ blobs = {ExistingBlob}
     /\ sessions = <<ExistingSession>>
     /\ clock = 0
     /\ TidyAbsent
     /\ FnIdle

NextAll == Next \/ NextHTTP

SpecAll == InitAll /\ [][NextAll]_vars

\* A request arrives while the store holds what another analyzeSpace request
\* of the same user wrote at the instant t of the clock: its two public
\* images and its session. The clock has not moved on from t yet.
OtherBlobs(t) ==
  {[Blob(BeforePath("u1", t, "jpg"), "image/jpeg") EXCEPT !.public = TRUE],
   [Blob(AfterPath("u1", t), "image/png") EXCEPT !.public = TRUE]}
OtherSession(t) ==
  Session("u1", BeforePath("u1", t, "jpg"), AfterPath("u1", t),
          [kind |-> "object", m |-> NoMembers])

InitSameUser ==
  \E t \in 0..MaxClock :
    /\ req \in Requests
    /\ oaiKey \in {"", "sk-test"}
    /\ req.fn # "analyzeSpace" => oaiKey = ""
    /\ RequestFresh
    /\ blobs = OtherBlobs(t)
    /\ sessions = <<OtherSession(t)>>
    /\ clock = t
    /\ itemDoc = DefaultDoc
    /\ snap = [exists |-> FALSE, data |-> DefaultDoc]
    /\ others = EmptyStore
    /\ TidyIdle
    /\ FnIdle

SpecSameUser == InitSameUser /\ [][NextHTTP]_vars

\* The helper functions called on their own, with every argument of a
\* bounded set.
StatItems ==
  [name : {"mug"}, category : {Undefined, "", "books", "toys"}, space : {Undefined, "closet"},
   createdAt : {NoDate}]
\* createdAt: absent, null, a string that is no date, or an instant as a store
\* Timestamp, a native Date or an ISO string
Dates ==
  {NoDate, [kind |-> "null", ms |-> 0], [kind |-> "garbage", ms |-> 0]}
    \cup [kind : {"timestamp", "date", "iso"}, ms : 0..MaxMs]
DatedItems == [name : {"mug"}, category : {"books"}, space : {"closet"}, createdAt : Dates]
\* the records of one user, more of them than the recent window holds
SortedDates ==
  {NoDate, [kind |-> "timestamp", ms |-> 1], [kind |-> "date", ms |-> MaxMs]}
SortedItems == [name : {"mug"}, category : {"books"}, space : {"closet"}, createdAt : SortedDates]
Lists(S) == UNION {[1..k -> S] : k \in 0..MaxRecords}
Keys ==
  DOMAIN CATEGORY_NAMES \cup DOMAIN SPACES \cup ObjectPrototypeKeys \cup {Undefined, "", "attic"}

\* The item documents and the contexts a message is built from. A note is
\* absent, empty, blank, or a text with or without blanks around it.
Notes ==
  {NoNote} \cup
  {[present |-> TRUE, s |-> n] : n \in {<<>>, <<" ">>, <<"o", "k">>, <<" ", "o", " ", "k", " ">>}}
MessageItems ==
  [name : {"wool coat"}, category : {"clothing", "attic", "constructor"},
   space : {Undefined, "closet"}, note : Notes, hasBeforeAfter : BOOLEAN, points : {10}]
Contexts ==
  [userVision : {"", "calm home"}, totalItems : {5}, currentStreak : {0, 3}, totalPoints : {40},
   itemsThisWeek : {2}, topSpaceName : {"N/A", "Closet"}, topCategoryName : {"N/A"},
   recentItemsList : {<<>>, <<"mug (Books, Closet, today)">>}]

\* Image strings: a base64 payload, bare or behind a data-URL prefix. The
\* media types are a type the pattern image\/\w+ takes whole, an image type it
\* does not, and a type that is no image; one prefix names no type and one
\* stops before the comma.
ImageStrings ==
  LET Payloads ==
        {<<"/9j/", "AA">>, <<"iVBOR", "AA">>, <<"R0lGOD", "AA">>, <<"UklGR", "AA">>, <<"AA">>}
      MediaTypes == {"image/png", "image/svg+xml", "application/octet-stream"}
      Prefixes ==
        {<<>>, <<"data:">>, <<"data:", ";base64", ",">>} \cup
        {<<"data:", t, ";base64", ",">> : t \in MediaTypes}
  IN {p \o b : p \in Prefixes, b \in Payloads}

Calls ==
  {[NoCall EXCEPT !.fn = f, !.key = k] :
     f \in {"getCategoryName", "getSpaceDisplayName"}, k \in Keys}
  \cup
  {[NoCall EXCEPT !.fn = "getMostFrequent", !.items = l, !.field = f] :
     l \in Lists(StatItems), f \in {"category", "space"}}
  \cup
  {[NoCall EXCEPT !.fn = f, !.items = l, !.now = WeekMs + n] :
     f \in {"getItemsThisWeek", "formatRecentItemsList"}, l \in Lists(DatedItems), n \in 1..MaxMs}
  \cup
  {[NoCall EXCEPT !.fn = "buildTidyUserMessage", !.itemData = i, !.context = c, !.shortMode = m] :
     i \in MessageItems, c \in Contexts, m \in BOOLEAN}
  \cup
  {[NoCall EXCEPT !.fn = f, !.image = s] :
     f \in {"getMediaType", "stripDataUrlPrefix"}, s \in ImageStrings}
  \cup
  {[NoCall EXCEPT !.fn = "recentItems", !.items = l] :
     l \in UNION {[1..k -> SortedItems] : k \in 0..MaxSorted}}

InitFn ==
  /\ call \in Calls
  /\ ret = NoReturn
  /\ req = NoRequest
  /\ oaiKey = ""
  /\ RequestIdle
  /\ clock = 0
  /\ TidyAbsent

NextFn ==
  \/ CallGetCategoryName
  \/ CallGetSpaceDisplayName
  \/ CallGetMostFrequent
  \/ CallGetItemsThisWeek
  \/ CallFormatRecentItemsList
  \/ CallRecentItems
  \/ CallBuildTidyUserMessage
  \/ CallGetMediaType
  \/ CallStripDataUrlPrefix

SpecFn == InitFn /\ [][NextFn]_vars

\* ------------------------------------------------------------- claims
Zero(h) == hQueries[h] = 0 /\ hProvider[h] = 0 /\ hMutations[h] = 0
Skipped(h) ==
  /\ Zero(h)
  /\ hpc[h] \in {"idle", "done"}
  /\ hpc[h] = "done" => hOutcome[h] = "returned"

\* C1: whatever deliveries of the creation event of one record are handled,
\* one after the other or concurrently, the record's comment list holds at
\* most one comment whose isAI flag is set.
C1_AtMostOneAIComment == Cardinality(AIComments(itemDoc)) <= 1

\* C2: a handler invoked with a record whose data already holds a comment
\* with isAI set issues no store query, no provider call and no update, and
\* returns normally.
C2_AICommentSkips ==
  \A h \in Handlers :
    (snap.exists /\ AIComments(snap.data) # {}) => Skipped(h)

C2_Witness ==
  \E h \in Handlers :
    /\ hpc[h] = "done"
    /\ snap.exists
    /\ Truthy(snap.data.userId) /\ Truthy(snap.data.name) /\ Truthy(snap.data.category)
    /\ snap.data.comments = JList(<<UserComment, OldAIComment>>)

\* C3: a handler invoked with no event data, or with a record lacking a name
\* or a category, issues no store query, no provider call and no update, and
\* returns without raising.
C3_MissingFieldsSkips ==
  \A h \in Handlers :
    (~snap.exists \/ ~Truthy(snap.data.name) \/ ~Truthy(snap.data.category)) => Skipped(h)

C3_Witness ==
  \E h \in Handlers :
    /\ hpc[h] = "done"
    /\ snap.exists
    /\ Truthy(snap.data.userId) /\ Truthy(snap.data.category)
    /\ snap.data.name = ""
    /\ AIComments(snap.data) = {}

Done(fn) == req.fn = fn /\ rpc = "done"
NoStoreWrite == blobs = {} /\ sessions = <<>>
Malformed502 == ErrorResponse(502, "Analysis returned invalid format")

\* C4: in analyzeSpace, when the analysis was recovered and the edit call
\* failed (non-success status or exception) or no image key is configured,
\* the one response is the success response with the recovered analysis and
\* afterImageUrl null, and a session record, if written, has afterImageUrl
\* null.
C4_EditFailureStillSucceeds ==
  (Done("analyzeSpace") /\ parsed # NoAnalysis /\ (editOutcome = "failed" \/ ~Truthy(oaiKey)))
    => /\ resp = <<AnalysisResponse(parsed, NoUrl)>>
       /\ Len(sessions) <= 1
       /\ \A i \in 1..Len(sessions) : sessions[i].afterImageUrl = NoUrl

\* C5: in analyzeSpace, a text that parses neither directly nor through
\* its brace span (no span, or a span that is not JSON) ends the request
\* with the 502 "Analysis returned invalid format" response and nothing
\* else, without an edit call, a blob write or a session write.
Unparseable(text) ==
  /\ ~JSONParse(text).ok
  /\ MatchBraces(text).found => ~JSONParse(MatchBraces(text).span).ok

C5_UnparseableIsMalformed ==
  (Done("analyzeSpace") /\ analysisText # NoText /\ Unparseable(analysisText))
    => /\ resp = <<Malformed502>>
       /\ rEdit = 0
       /\ NoStoreWrite

\* C6: a text that is prose around one well-formed JSON object is
\* recovered as exactly that object, and a text with no "{" and no "}"
\* ends with the MalformedAnalysis response.
Objects == {<<"{", "}">>, <<"{", "m", "}">>}
Prose(s) == \A i \in 1..Len(s) : s[i] \in {"p", "s"}
NoBraces(s) == \A i \in 1..Len(s) : s[i] \notin {"{", "}"}
ProseAround(text, obj) ==
  \E i \in 1..Len(text) :
    /\ i + Len(obj) - 1 <= Len(text)
    /\ SubSeq(text, i, i + Len(obj) - 1) = obj
    /\ Prose(SubSeq(text, 1, i - 1))
    /\ Prose(SubSeq(text, i + Len(obj), Len(text)))

C6_RecoveryRoundTrip ==
  (Done("analyzeSpace") /\ analysisText # NoText)
    => /\ \A obj \in Objects :
            ProseAround(analysisText, obj)
              => parsed = [kind |-> "object",
                           m |-> IF obj = <<"{", "m", "}">> THEN payload ELSE NoMembers]
       /\ NoBraces(analysisText) => resp = <<Malformed502>>

\* C7: an analysis that analyzeSpace accepts and returns has as many
\* itemArrangements as visibleItems.
C7_AcceptedLengthsMatch ==
  \A i \in 1..Len(resp) :
    (req.fn = "analyzeSpace" /\ resp[i].status = 200
       /\ resp[i].analysis.m.visibleItems.t = "list"
       /\ resp[i].analysis.m.itemArrangements.t = "list")
      => Len(resp[i].analysis.m.visibleItems.v) = Len(resp[i].analysis.m.itemArrangements.v)

\* C8: in analyzeSpace, when storing the before image or writing the
\* session record fails, the caller still gets the success response, with
\* the recovered analysis and the afterImageUrl that stage 4 left.
C8_PersistenceFailureSwallowed ==
  (Done("analyzeSpace") /\ persistOutcome = "failed")
    => /\ resp = <<AnalysisResponse(parsed, afterImageUrl)>>
       /\ afterImageUrl \in {NoUrl, afterPath}
       /\ parsed # NoAnalysis

C8_Witness ==
  /\ Done("analyzeSpace")
  /\ persistOutcome = "failed"
  /\ beforeUrl # NoUrl
  /\ afterImageUrl # NoUrl
  /\ resp[1].status = 200

\* C9: a request that lacks a required field (itemName or category;
\* imageBase64 or userId; prompt) gets the 400 response, and no provider
\* call and no store write is made for it.
MissingField ==
  \/ req.fn = "generateEncouragement" /\ (~Truthy(req.itemName) \/ ~Truthy(req.category))
  \/ req.fn = "analyzeSpace"
       /\ (~req.imageBase64.present \/ req.imageBase64.s = <<>> \/ ~Truthy(req.userId))
  \/ req.fn = "generateTidyCommentHTTP" /\ ~Truthy(req.prompt)
NoCalls == rProvider = 0 /\ rEdit = 0 /\ NoStoreWrite

C9_MissingFieldIs400 ==
  (rpc = "done" /\ MissingField)
    => Len(resp) = 1 /\ resp[1].status = 400 /\ NoCalls

\* C9, as amended: a POST request that lacks a required field gets the 400
\* response, a request of another method that lacks one gets the 405
\* response, and in both cases no provider call and no store write is made.
C9_MissingFieldRejected ==
  MissingField
    => /\ NoCalls
       /\ rpc \in {"idle", "done"}
       /\ rpc = "done"
            => /\ Len(resp) = 1
               /\ resp[1].status = IF req.method = "POST" THEN 400 ELSE 405

C9_Witness ==
  /\ rpc = "done"
  /\ req.method = "POST"
  /\ req.fn = "analyzeSpace"
  /\ req.imageBase64.present /\ req.imageBase64.s # <<>>
  /\ ~Truthy(req.userId)
  /\ resp[1].status = 400

\* C10: the max_tokens generateTidyCommentHTTP sends is at most 200, is the
\* caller's maxTokens when that is between 1 and 200, and is 200 when the
\* caller gave none.
C10_TokenBudgetCapped ==
  (req.fn = "generateTidyCommentHTTP" /\ rProvider > 0)
    => /\ sentBudget <= 200
       /\ (req.maxTokens.present /\ req.maxTokens.v >= 1 /\ req.maxTokens.v <= 200)
            => sentBudget = req.maxTokens.v
       /\ ~req.maxTokens.present => sentBudget = 200

C10_Witness ==
  /\ req.fn = "generateTidyCommentHTTP"
  /\ rProvider = 1
  /\ req.maxTokens.present /\ req.maxTokens.v = 201
  /\ sentBudget = 200

\* C11: in every execution of every handler at most one request is issued
\* to the text provider and at most one to the image-edit provider, whatever
\* the outcome of that request: a call that failed or timed out is not
\* issued again.
C11_NoRetry ==
  /\ \A h \in Handlers : hProvider[h] <= 1
  /\ rProvider <= 1
  /\ rEdit <= 1

C11_Witness ==
  /\ Done("analyzeSpace")
  /\ rProvider = 1
  /\ rEdit = 1
  /\ editOutcome = "failed"
  /\ resp[1].status = 200

\* C12: every call of a generation provider is bounded by a client-side
\* timeout, so that no handler is ever left waiting for a provider that
\* never answers: the call is aborted and the handler goes on to its end.
C12_CallsTimeBounded ==
  /\ rpc # "hung"
  /\ \A h \in Handlers : hpc[h] # "hung"

FixedFailure ==
  IF req.fn = "analyzeSpace" THEN "Analysis failed" ELSE "AI service unavailable"

\* C13: when the text provider answers a direct request's call with a
\* failure, the response to the caller is one fixed 502 response of the
\* function, whatever the status and the body of the provider's answer: two
\* executions that differ only in these send the same response.
C13_ProviderFailureOpaque ==
  provError # NoError
    => /\ provError \in ProviderErrors
       /\ resp = <<ErrorResponse(502, FixedFailure)>>

C13_Witness ==
  /\ Done("generateEncouragement")
  /\ provError = [status |-> 529, body |-> "overloaded_error"]
  /\ Len(resp) = 1

\* C14: in generateTidyComment, when a store query or the provider call
\* fails the handler ends without throwing and without having issued an
\* update of the triggering document, and when the update fails the handler
\* ends without throwing.
C14_FailuresSwallowed ==
  \A h \in Handlers :
    /\ hFailure[h] # "none" => (hpc[h] = "done" /\ hOutcome[h] = "returned")
    /\ hFailure[h] \in {"query", "provider"} => hMutations[h] = 0

C14_Witness ==
  \E h, g \in Handlers :
    /\ hFailure[h] = "provider"
    /\ hFailure[g] = "write"
    /\ hOutcome[g] = "returned"

\* C15: an analyzeSpace request adds at most one document to coachSessions,
\* adds none when it is answered with an error (validation, analysis call,
\* recovery of the result), and leaves the documents that were there as
\* they were.
C15_OneSessionPerRequest ==
  req.fn = "analyzeSpace"
    => /\ Len(sessions) \in {1, 2}
       /\ sessions[1] = ExistingSession
       /\ (Len(resp) > 0 /\ resp[1].status # 200) => Len(sessions) = 1
       /\ rpc # "done" => Len(sessions) = 1

C15_Witness ==
  /\ Done("analyzeSpace")
  /\ Len(sessions) = 2
  /\ sessions[2].userId = "u1"

\* C16: the session document analyzeSpace writes has the path of a before
\* image that this request stored as beforeImageUrl, the analysis of the
\* response as analysis, and the afterImageUrl of the response (null in
\* both, or the same URL in both) as afterImageUrl.
C16_SessionMatchesResponse ==
  (req.fn = "analyzeSpace" /\ Len(sessions) > 1)
    => /\ \E b \in blobs \ {ExistingBlob} :
            /\ b.path = sessions[2].beforeImageUrl
            /\ b.path[1] = req.userId
            /\ b.path[3] = "before"
       /\ Len(resp) = 1
       /\ resp[1].status = 200
       /\ resp[1].analysis = sessions[2].analysis
       /\ resp[1].afterImageUrl = sessions[2].afterImageUrl

C16_Witness ==
  /\ Done("analyzeSpace")
  /\ Len(sessions) = 2
  /\ sessions[2].afterImageUrl # NoUrl
  /\ sessions[2].analysis.m.visibleItems.t = "list"

\* C17: every step of generateTidyComment that changes the store appends
\* one comment with isAI set to the comments of the triggering document:
\* the comments that were there keep their content and order, the other
\* fields of the document, the other item documents and the user profiles
\* stay as they are, and a handler issues at most one update.
C17_OnlyAppendsOneAIComment ==
  [][/\ others' = others
     /\ \A h \in Handlers : hMutations'[h] <= 1
     /\ itemDoc' # itemDoc
          => LET old == IF itemDoc.comments.t = "list" THEN itemDoc.comments.v ELSE <<>>
             IN /\ [itemDoc' EXCEPT !.comments = itemDoc.comments] = itemDoc
                /\ itemDoc'.comments.t = "list"
                /\ Len(itemDoc'.comments.v) = Len(old) + 1
                /\ SubSeq(itemDoc'.comments.v, 1, Len(old)) = old
                /\ itemDoc'.comments.v[Len(old) + 1].isAI]_vars

C17_Witness ==
  /\ others # EmptyStore
  /\ itemDoc.comments.t = "list"
  /\ Len(itemDoc.comments.v) = 2
  /\ itemDoc.comments.v[1] = UserComment
  /\ itemDoc.comments.v[2].isAI
  /\ itemDoc.comments.v[2].text = "Coat gone!"

\* C18: getCategoryName returns the "Other" label for every key that is not
\* a key of CATEGORY_NAMES, getSpaceDisplayName returns its argument for
\* every key that is not a key of SPACES, and both return the label of the
\* table for a key of the table.
C18_TaxonomyLookup ==
  /\ (call.fn = "getCategoryName" /\ ret.returned)
       => ret.s = IF call.key \in DOMAIN CATEGORY_NAMES
                    THEN CATEGORY_NAMES[call.key] ELSE "Other"
  /\ (call.fn = "getSpaceDisplayName" /\ ret.returned)
       => ret.s = IF call.key \in DOMAIN SPACES THEN SPACES[call.key] ELSE call.key

ValuesOf(items, field) ==
  {FieldOf(items[i], field) : i \in 1..Len(items)} \ {Undefined, ""}
Occurrences(items, field, v) ==
  Cardinality({i \in 1..Len(items) : FieldOf(items[i], field) = v})

C20_WeekBoundary ==
  (/\ call.fn = "getItemsThisWeek"
   /\ ret.returned
   /\ \A i \in 1..Len(call.items) : call.items[i].createdAt.kind \in {"timestamp", "date"})
    => ret.n = Cardinality({i \in 1..Len(call.items) :
                              call.items[i].createdAt.ms >= call.now - WeekMs})

C20_Witness ==
  /\ call.fn = "getItemsThisWeek"
  /\ ret.returned
  /\ Len(call.items) = 2
  /\ call.items[1].createdAt = [kind |-> "timestamp", ms |-> call.now - WeekMs]
  /\ call.items[2].createdAt = [kind |-> "date", ms |-> call.now - WeekMs - 1]
  /\ ret.n = 1

ValidDate(createdAt) == createdAt.kind \in {"timestamp", "date", "iso"}

\* C21: the sort of generateTidyComment, getItemsThisWeek and
\* formatRecentItemsList treat a record whose createdAt is absent or
\* malformed as a record created at the epoch: it comes after every record
\* with a valid date, it is not counted in the last seven days, and its
\* line shows the number of days since the epoch.
C21_BadDatesAreEpochZero ==
  /\ (call.fn = "getItemsThisWeek" /\ ret.returned)
       => ret.n = Cardinality({i \in 1..Len(call.items) :
                                 /\ ValidDate(call.items[i].createdAt)
                                 /\ call.items[i].createdAt.ms >= call.now - WeekMs})
  /\ (call.fn = "formatRecentItemsList" /\ ret.returned)
       => \A i \in 1..Len(call.items) :
            ~ValidDate(call.items[i].createdAt)
              => ret.l[i].ago = [text |-> "d ago", days |-> TimeValue(call.now \div DayMs)]
  /\ (call.fn = "recentItems" /\ ret.returned)
       => \A i, j \in 1..Len(ret.l) :
            (~ValidDate(ret.l[i].createdAt) /\ ValidDate(ret.l[j].createdAt)) => j < i

NormalTime(createdAt) == IF ValidDate(createdAt) THEN createdAt.ms ELSE 0
Later(items, t) ==
  Cardinality({i \in 1..Len(items) : NormalTime(items[i].createdAt) > t})

\* C29: the recent window of generateTidyComment holds the 7 records (all
\* of them when there are fewer) with the greatest creation time among the
\* user's records, the creation time of a native Date, an ISO string or a
\* store Timestamp being its instant: for every instant the window holds
\* as many of the records created after it as it has room for.
C29_RecentWindowIsLatest ==
  (call.fn = "recentItems" /\ ret.returned)
    => /\ Len(ret.l) = Min(RecentWindow, Len(call.items))
       /\ \A t \in 0..MaxMs :
            Later(ret.l, t) = Min(Len(ret.l), Later(call.items, t))

\* The lines of a built message, and whether one starts with a label.
MessageLines(message) ==
  UNION {{message[b][k] : k \in 1..Len(message[b])} : b \in DOMAIN message}
HasLine(message, label) == \E l \in MessageLines(message) : l.label = label
Built == call.fn = "buildTidyUserMessage" /\ ret.returned
NoteWritten ==
  call.itemData.note.present /\ \E i \in 1..Len(call.itemData.note.s) : call.itemData.note.s[i] # " "

\* C22: the message built by buildTidyUserMessage has a 'User note about this
\* item' line exactly when the item's note is present and is not empty once
\* the blanks around it are removed, and a 'Dream home vision' line exactly
\* when the user has a vision; a line that is absent leaves nothing behind:
\* no line of the user context is empty or has an empty text.
C22_NoteAndVisionLines ==
  Built =>
    /\ HasLine(ret.l, "User note about this item") <=> NoteWritten
    /\ HasLine(ret.l, "Dream home vision") <=> call.context.userVision \notin {"", Undefined}
    /\ \A k \in 1..Len(ret.l[1]) :
         ret.l[1][k].label # "" /\ ret.l[1][k].value # <<>> /\ ret.l[1][k].value[1] \notin {"", " "}

\* a blank note was given and the message has no note line; another message
\* has the note line
C22_Witness ==
  /\ Built
  /\ call.itemData.note = [present |-> TRUE, s |-> <<" ">>]
  /\ call.context.userVision = ""
  /\ ~HasLine(ret.l, "User note about this item")
  /\ Len(ret.l[1]) >= 1

TipRequested(message) ==
  \E k \in 1..Len(message[4]) : \E i \in 1..Len(message[4][k].value) :
    message[4][k].value[i] = "ONE practical maintenance tip"

C24_ShortModeKeepsContext ==
  (Built /\ call.shortMode /\ Truthy(call.itemData.name) /\ Truthy(call.itemData.category)) =>
    LET lines == MessageLines(ret.l)
        c == call.context
    IN /\ Line("Item", <<call.itemData.name>>) \in lines
       /\ Line("Category", <<getCategoryName(call.itemData.category)>>) \in lines
       /\ Line("Total items decluttered", <<ToString(c.totalItems)>>) \in lines
       /\ Line("Total points", <<ToString(c.totalPoints)>>) \in lines
       /\ Line("Items this week", <<ToString(c.itemsThisWeek)>>) \in lines
       /\ Line("Most cleared space lately", <<c.topSpaceName>>) \in lines
       /\ Line("Most cleared category lately", <<c.topCategoryName>>) \in lines
       /\ Line("Recent items", <<>>) \in lines
       /\ \A i \in 1..Len(c.recentItemsList) : Line("", <<c.recentItemsList[i]>>) \in lines
       /\ \E l \in lines : \E i \in 1..Len(l.value) : l.value[i] = "+ 1 emoji."

\* a short-mode message with a recent item in its history
C24_Witness ==
  /\ Built /\ call.shortMode
  /\ call.context.recentItemsList # <<>>
  /\ call.itemData.category = "attic"
  /\ Line("Category", <<"Other">>) \in MessageLines(ret.l)
\* How a data URL reads: the prefix runs up to its first comma, the declared
\* type is the media type behind "data:".
ImageTypes == {"image/png", "image/jpeg", "image/gif", "image/webp", "image/svg+xml"}
DeclaresImageType(s) == StartsWith(s, "data:") /\ Len(s) >= 2 /\ s[2] \in ImageTypes
PayloadOf(s) ==
  IF ~StartsWith(s, "data:") THEN s
  ELSE IF Commas(s) = {} THEN SubSeq(s, 2, Len(s))
  ELSE SubSeq(s, SetMin(Commas(s)) + 1, Len(s))
SignatureType(bytes) ==
  IF bytes = <<>> THEN "image/jpeg"
  ELSE CASE bytes[1] = "iVBOR" -> "image/png"
         [] bytes[1] = "R0lGOD" -> "image/gif"
         [] bytes[1] = "UklGR" -> "image/webp"
         [] OTHER -> "image/jpeg"

\* C25: getMediaType returns a media type for every base64 image string: the
\* declared type when a data-URL prefix declares an image type, and otherwise
\* (no prefix, or a prefix with no recognizable declaration) the type of the
\* payload's leading signature, jpeg when none matches; stripDataUrlPrefix
\* returns the payload without its data-URL prefix, and an unprefixed payload
\* unchanged.
C25_MediaTypeTotal ==
  /\ (call.fn = "getMediaType" /\ ret.returned) =>
       ret.s = IF DeclaresImageType(call.image) THEN call.image[2]
               ELSE SignatureType(PayloadOf(call.image))
  /\ (call.fn = "stripDataUrlPrefix" /\ ret.returned /\
        (StartsWith(call.image, "data:") => Commas(call.image) # {})) =>
       ret.l = PayloadOf(call.image)
\* C26: in analyzeSpace, once the analysis text was recovered as JSON, nothing
\* that fails in stage 4 makes the request an error: whatever the shape of
\* the analysis the edit instruction is built from, and whether the edit call
\* or the storing of the edited image fails, the one response is the success
\* response with the recovered analysis.
C26_Stage4NeverFatal ==
  (Done("analyzeSpace") /\ analysisText # NoText /\ Recover(analysisText).outcome = "parsed")
    => resp = <<AnalysisResponse(ParsedValue(Recover(analysisText), payload), afterImageUrl)>>
Range(s) == {s[i] : i \in 1..Len(s)}
Flagged(analysis) ==
  Range(OrEmpty(analysis.m.trashToRemove).v) \cup Range(OrEmpty(analysis.m.misplacedItems).v)

\* C27: the edit instruction that analyzeSpace builds lists under 'ITEMS THAT
\* MUST STAY' exactly the visible items that are in neither trashToRemove nor
\* misplacedItems, and lists every item of trashToRemove and misplacedItems
\* in its removable line.
C27_KeepListIsUnflagged ==
  (req.fn = "analyzeSpace" /\ imagePrompt.kind = "built")
    => /\ Range(imagePrompt.keep) = Range(parsed.m.visibleItems.v) \ Flagged(parsed)
       /\ Range(imagePrompt.removable) = Flagged(parsed)
\* The first balanced span of a text: from its first "{" to the "}" that
\* closes it.
Depth(text, i, j) ==
  Cardinality({k \in i..j : text[k] = "{"}) - Cardinality({k \in i..j : text[k] = "}"})
FirstBalanced(text) ==
  LET opens == {i \in 1..Len(text) : text[i] = "{"}
      ends == IF opens = {} THEN {}
              ELSE {j \in SetMin(opens)..Len(text) : Depth(text, SetMin(opens), j) = 0}
  IN IF ends = {} THEN [found |-> FALSE, span |-> <<>>]
     ELSE [found |-> TRUE, span |-> SubSeq(text, SetMin(opens), SetMin(ends))]

\* C28: when the analysis text does not parse directly, recovery parses its
\* first balanced '{...}' span: if that span is a well-formed JSON object,
\* whatever prose or further object with braces follows it, the recovered
\* analysis is that object.
C28_FirstBalancedSpan ==
  (Done("analyzeSpace") /\ analysisText # NoText /\ ~JSONParse(analysisText).ok
     /\ FirstBalanced(analysisText).found /\ JSONParse(FirstBalanced(analysisText).span).ok)
    => /\ parsed.kind = "object"
       /\ (parsed.m # NoMembers) => JSONParse(FirstBalanced(analysisText).span).members
Places ==
  <<"idle", "fetch", "analysis", "recover", "edit", "saveAfter", "publicAfter",
    "saveBefore", "publicBefore", "session", "hung", "done">>
Place(p) == CHOOSE i \in 1..Len(Places) : Places[i] = p

\* C31: every invocation of generateEncouragement, generateTidyCommentHTTP
\* and analyzeSpace whose external calls all return or throw sends exactly
\* one response; no path ends without a response and none sends a second.
\* Stated on the finite runs of a request: every step moves the request to a
\* later place; no place but the end and a call that never answers is
\* without a next step; nothing has been sent before the end, and exactly
\* one response has been sent at the end.
C31_ExactlyOneResponse ==
  /\ [](/\ Len(resp) <= 1
        /\ rpc = "done" => Len(resp) = 1
        /\ rpc \in {"fetch", "analysis", "recover", "edit", "saveAfter", "publicAfter",
                    "saveBefore", "publicBefore", "session"} => Len(resp) = 0
        /\ rpc \notin {"hung", "done"} => ENABLED NextHTTP)
  /\ [][Place(rpc') > Place(rpc)]_vars

\* an analyzeSpace request ended by the outer catch, with its one response
C31_Witness ==
  /\ Done("analyzeSpace")
  /\ analysisText # NoText
  /\ resp = <<ErrorResponse(500, "Internal server error")>>
\* The blobs of a request that started with an empty bucket, by the kind
\* of their path.
AfterBlobs == {b \in blobs : \E t \in 0..MaxClock : b.path = AfterPath(req.userId, t)}
Referenced(b) ==
  \E i \in 1..Len(sessions) :
    sessions[i].beforeImageUrl = b.path \/ sessions[i].afterImageUrl = b.path

\* C32: at the end of every analyzeSpace request, every blob the request
\* stored (the before image or the edited after image) is referenced by the
\* session record the request wrote, and the afterImageUrl it returned is
\* non-null exactly when an edited-image blob was stored.
C32_NoOrphanBlob ==
  (Done("analyzeSpace") /\ Len(resp) = 1)
    => /\ \A b \in blobs : Referenced(b)
       /\ (resp[1].afterImageUrl # NoUrl) <=> (AfterBlobs # {})
\* C33: two analyzeSpace requests, also concurrent ones of the same user,
\* never store a blob at the same object path: no step of a request
\* overwrites an image that a session record references (a request writes
\* its own session record after its last blob write, so a referenced image
\* is another request's).
C33_NoSharedPath ==
  [][\A b \in blobs : Referenced(b) => b \in blobs']_vars
====
